---- MODULE Spec2Model ----
(***************************************************************************)
(* A model of the crawl-and-classify engine of app/api/scan-site/route.ts: *)
(* the URL classifier, the duplicate detector, the scoring arithmetic and  *)
(* the POST handler that drives them.                                      *)
(*                                                                         *)
(* Text is modelled by TLA+ strings; TLC evaluates Len, SubSeq and \o on   *)
(* them, so substring tests and regular expressions are computed on the    *)
(* characters as the code computes them.                                   *)
(***************************************************************************)
EXTENDS Integers, Sequences, FiniteSets, TLC

(* ------------------------------ CONFIG -------------------------------- *)
MAX_PAGES == 500

REQUIRED_PAGES == <<"about", "contact", "privacy", "terms", "disclaimer">>

MIN_CONTENT_WORDS == 300

(* --------------------------- string helpers --------------------------- *)
\* the set of elements of a sequence
Range(f) == { f[i] : i \in DOMAIN f }

\* the characters i..j of s that exist ("" when there are none)
Slice(s, i, j) ==
  LET a == IF i < 1 THEN 1 ELSE i
      b == IF j > Len(s) THEN Len(s) ELSE j
  IN  IF a > b THEN "" ELSE SubSeq(s, a, b)

\* s[i] of a JavaScript string, as a one-character string ("" out of range)
CharAt(s, i) == IF i >= 1 /\ i <= Len(s) THEN SubSeq(s, i, i) ELSE ""

\* String.prototype.includes
Contains(s, k) == \E i \in 1..(Len(s) - Len(k) + 1) : Slice(s, i, i + Len(k) - 1) = k

\* String.prototype.startsWith
StartsWith(s, k) == Len(s) >= Len(k) /\ Slice(s, 1, Len(k)) = k

\* String.prototype.endsWith, the `$` anchor of a regular expression
EndsWith(s, k) == Len(s) >= Len(k) /\ Slice(s, Len(s) - Len(k) + 1, Len(s)) = k

\* the first index >= from whose character is in chars, Len(s) + 1 when none
FirstOf(s, chars, from) ==
  LET hits == { i \in from..Len(s) : CharAt(s, i) \in chars }
  IN  IF hits = {} THEN Len(s) + 1 ELSE CHOOSE i \in hits : \A j \in hits : i <= j

UPPER == { "A", "B", "C", "D", "E", "F", "G", "H", "I", "J", "K", "L", "M",
           "N", "O", "P", "Q", "R", "S", "T", "U", "V", "W", "X", "Y", "Z" }

\* one character of String.prototype.toLowerCase
LowerChar(c) ==
  IF c \notin UPPER THEN c
  ELSE CASE c = "A" -> "a" []
       c = "B" -> "b" []
       c = "C" -> "c" []
       c = "D" -> "d" []
       c = "E" -> "e" []
       c = "F" -> "f" []
       c = "G" -> "g" []
       c = "H" -> "h" []
       c = "I" -> "i" []
       c = "J" -> "j" []
       c = "K" -> "k" []
       c = "L" -> "l" []
       c = "M" -> "m" []
       c = "N" -> "n" []
       c = "O" -> "o" []
       c = "P" -> "p" []
       c = "Q" -> "q" []
       c = "R" -> "r" []
       c = "S" -> "s" []
       c = "T" -> "t" []
       c = "U" -> "u" []
       c = "V" -> "v" []
       c = "W" -> "w" []
       c = "X" -> "x" []
       c = "Y" -> "y" []
       c = "Z" -> "z"

\* the lower-cased characters lo..hi of s (halving keeps the evaluation shallow)
RECURSIVE ToLowerRange(_, _, _)
ToLowerRange(s, lo, hi) ==
  IF lo > hi THEN ""
  ELSE IF lo = hi THEN LowerChar(CharAt(s, lo))
  ELSE LET mid == (lo + hi) \div 2
       IN  ToLowerRange(s, lo, mid) \o ToLowerRange(s, mid + 1, hi)

\* String.prototype.toLowerCase
ToLower(s) ==
  IF \A i \in 1..Len(s) : CharAt(s, i) \notin UPPER THEN s
  ELSE ToLowerRange(s, 1, Len(s))

\* the regular expression class \d
IsDigit(c) == c \in {"0", "1", "2", "3", "4", "5", "6", "7", "8", "9"}

\* /^\d+$/
AllDigits(s) == Len(s) > 0 /\ \A i \in 1..Len(s) : IsDigit(CharAt(s, i))

\* \d{n} at position i of s
DigitsAt(s, i, n) == i >= 1 /\ i + n - 1 <= Len(s) /\ \A j \in i..(i + n - 1) : IsDigit(CharAt(s, j))

(* ------------------------------ new URL() ------------------------------ *)
\* the index of the first character after the scheme and "//", 0 when the
\* string has no http(s) scheme
AfterScheme(u) ==
  IF StartsWith(u, "https://") THEN 9
  ELSE IF StartsWith(u, "http://") THEN 8 ELSE 0

\* where the host ends: the first "/", "?" or "#" after the scheme
HostEnd(u) == FirstOf(u, {"/", "?", "#"}, AfterScheme(u))

\* new URL(u) does not throw: an absolute http(s) URL with a host
IsValidUrl(u) == AfterScheme(u) > 0 /\ HostEnd(u) > AfterScheme(u)

\* URL.hostname
Hostname(u) == Slice(u, AfterScheme(u), HostEnd(u) - 1)

\* URL.pathname: from the host to the first "?" or "#"; "/" when empty
Pathname(u) ==
  LET p == Slice(u, HostEnd(u), FirstOf(u, {"?", "#"}, HostEnd(u)) - 1)
  IN  IF p = "" THEN "/" ELSE p

\* URL.hash: from the first "#" to the end; "" for an empty fragment
UrlHash(u) ==
  LET h == FirstOf(u, {"#"}, 1)
  IN  IF h >= Len(u) THEN "" ELSE Slice(u, h, Len(u))

\* u.split('#')[0]
StripFragment(u) == Slice(u, 1, FirstOf(u, {"#"}, 1) - 1)

RECURSIVE SplitFrom(_, _, _)
SplitFrom(s, sep, from) ==
  LET e == FirstOf(s, {sep}, from)
  IN  IF e > Len(s) THEN <<Slice(s, from, Len(s))>>
      ELSE <<Slice(s, from, e - 1)>> \o SplitFrom(s, sep, e + 1)

\* path.split("/").filter(Boolean)
Segments(path) == SelectSeq(SplitFrom(path, "/", 1), LAMBDA x : x # "")

(* --------------------------- isLikelyPostUrl --------------------------- *)
toolKeywords ==
  { "download", "torrent", "crack", "keygen", "serial", "hack", "patch", "key",
    "activation", "free-download", "download-free", "free-torrent",
    "torrent-download", "cracked", "crack-download", "crack-free",
    "apk-download", "apk-free", "app-download", "app-free",
    "software-download", "software-free", "free-software",
    "movie-download", "movie-free", "free-movie", "torrent-movie",
    "music-download", "music-free", "free-music", "torrent-music",
    "downloader", "video-downloader", "audio-downloader", "mp3-downloader",
    "mp4-downloader", "instagram-downloader", "tiktok-downloader",
    "youtube-downloader", "facebook-downloader", "soundcloud-downloader",
    "twitch-downloader", "pinterest-downloader" }

\* toolKeywords.some(keyword => path.includes(keyword))
HasToolKeyword(path) == \E k \in toolKeywords : Contains(path, k)

\* the unanchored literal patterns of obviousCategoryPatterns
categoryLiterals ==
  { "/search/", "/category/", "/tag/", "/author/", "/archive/", "/wp-json/",
    "/wp-content/", "/wp-includes/", "/admin/", "/login", "/register",
    "/signup", "/cart", "/checkout", "/shop", "/store", "/products",
    "/services" }

\* the patterns of obviousCategoryPatterns that name a required legal page
legalLiterals == { "/about", "/contact", "/privacy", "/terms", "/disclaimer" }

\* /\/page\/\d+/
MatchesPagination(c) ==
  \E i \in 1..Len(c) : Slice(c, i, i + 5) = "/page/" /\ DigitsAt(c, i + 6, 1)

\* /\/\d{4}\/$/
MatchesYearDir(c) ==
  LET n == Len(c)
  IN  n >= 6 /\ CharAt(c, n - 5) = "/" /\ DigitsAt(c, n - 4, 4) /\ CharAt(c, n) = "/"

\* /\/\d{4}\/\d{2}\/$/
MatchesYearMonthDir(c) ==
  LET n == Len(c)
  IN  /\ n >= 9
      /\ CharAt(c, n - 8) = "/" /\ DigitsAt(c, n - 7, 4)
      /\ CharAt(c, n - 3) = "/" /\ DigitsAt(c, n - 2, 2) /\ CharAt(c, n) = "/"

\* a variant of the pattern list without the legal-page patterns
obviousCategoryPatternsNoLegal(cleanUrl) ==
  \/ \E k \in categoryLiterals : Contains(cleanUrl, k)
  \/ EndsWith(cleanUrl, "/feed")
  \/ MatchesPagination(cleanUrl)
  \/ MatchesYearDir(cleanUrl)
  \/ MatchesYearMonthDir(cleanUrl)

\* obviousCategoryPatterns.some(pattern => pattern.test(cleanUrl))
obviousCategoryPatterns(cleanUrl) ==
  \/ \E k \in categoryLiterals \cup legalLiterals : Contains(cleanUrl, k)
  \/ EndsWith(cleanUrl, "/feed")
  \/ MatchesPagination(cleanUrl)
  \/ MatchesYearDir(cleanUrl)
  \/ MatchesYearMonthDir(cleanUrl)

\* /^\/\d{4}\/\d{2}\/.*\.html$/
postPattern(path) ==
  /\ Len(path) >= 14
  /\ CharAt(path, 1) = "/" /\ DigitsAt(path, 2, 4)
  /\ CharAt(path, 6) = "/" /\ DigitsAt(path, 7, 2)
  /\ CharAt(path, 9) = "/"
  /\ EndsWith(path, ".html")

\* the last-segment test of the descriptive-slug rule
IsDescriptiveSlug(lastSegment) ==
  /\ Len(lastSegment) > 4
  /\ ~AllDigits(lastSegment)
  /\ lastSegment \notin { "page", "category", "tag", "feed", "wp-json", "admin",
                          "login", "register", "signup", "cart", "checkout",
                          "shop", "store" }
  /\ ~\E x \in { ".html", ".htm", ".php", ".asp", ".jsp", ".aspx" } : EndsWith(lastSegment, x)

\* the decision of isLikelyPostUrl for a string new URL() accepts
isLikelyPostUrl(url) ==
  LET u        == ToLower(url)
      path     == Pathname(u)
      segments == Segments(path)
      cleanUrl == StripFragment(u)
  IN  IF UrlHash(u) # "" THEN FALSE
      ELSE IF HasToolKeyword(path) THEN TRUE
      ELSE IF obviousCategoryPatterns(cleanUrl) THEN FALSE
      ELSE IF postPattern(path) THEN TRUE
      ELSE IF Len(segments) = 1 /\ segments[1] \notin Range(REQUIRED_PAGES) THEN TRUE
      ELSE IF Len(segments) >= 2 /\ IsDescriptiveSlug(segments[Len(segments)]) THEN TRUE
      ELSE FALSE

\* what a call of isLikelyPostUrl does: new URL(u) throws on a string that is
\* no absolute URL, before any rule is looked at
isLikelyPostUrlCall(url) ==
  IF ~IsValidUrl(ToLower(url)) THEN "throw"
  ELSE IF isLikelyPostUrl(url) THEN "true" ELSE "false"

(* ----------------------- checkForDuplicateContent ----------------------- *)
\* the characters the regular expression class \s matches
WHITESPACE == { " ", "\t", "\n", "\r", "\f" }

\* what .replace(/\s+/g, ' ') leaves of the character at i: a space for the
\* first character of a run of white space, nothing for the rest of the run
CollapsedChar(s, i) ==
  IF CharAt(s, i) \notin WHITESPACE THEN CharAt(s, i)
  ELSE IF i > 1 /\ CharAt(s, i - 1) \in WHITESPACE THEN "" ELSE " "

RECURSIVE CollapseRange(_, _, _)
CollapseRange(s, lo, hi) ==
  IF lo > hi THEN ""
  ELSE IF lo = hi THEN CollapsedChar(s, lo)
  ELSE LET mid == (lo + hi) \div 2
       IN  CollapseRange(s, lo, mid) \o CollapseRange(s, mid + 1, hi)

\* .replace(/\s+/g, ' ')
CollapseWhitespace(s) == CollapseRange(s, 1, Len(s))

\* String.prototype.trim
Trim(s) ==
  LET keep == { i \in 1..Len(s) : CharAt(s, i) \notin WHITESPACE }
  IN  IF keep = {} THEN ""
      ELSE SubSeq(s, CHOOSE i \in keep : \A j \in keep : i <= j,
                     CHOOSE i \in keep : \A j \in keep : i >= j)

\* content.toLowerCase().replace(/\s+/g, ' ').trim()
Normalize(s) == Trim(CollapseWhitespace(ToLower(s)))

DUP_MIN_LENGTH == 100

DUP_OVERLAP_PERCENT == 80

\* a variant of the loop body that compares strings of 100 characters or
\* more at every stride-th position and asks for a share above 0.85
SimilarContentSampled(normalizedContent, normalizedExisting) ==
  LET minLength == IF Len(normalizedContent) < Len(normalizedExisting)
                   THEN Len(normalizedContent) ELSE Len(normalizedExisting)
      stride    == IF minLength \div 100 < 1 THEN 1 ELSE minLength \div 100
      sampled   == { i \in 1..minLength : (i - 1) % stride = 0 }
      matches   == Cardinality({ i \in sampled :
                       CharAt(normalizedContent, i) = CharAt(normalizedExisting, i) })
  IN  minLength >= 100 /\ 100 * matches > 85 * Cardinality(sampled)

\* the loop body of checkForDuplicateContent on two normalized strings:
\* minLength > 100 and matches / minLength > 0.8
SimilarContent(normalizedContent, normalizedExisting) ==
  LET minLength == IF Len(normalizedContent) < Len(normalizedExisting)
                   THEN Len(normalizedContent) ELSE Len(normalizedExisting)
      matches   == Cardinality({ i \in 1..minLength :
                       CharAt(normalizedContent, i) = CharAt(normalizedExisting, i) })
  IN  minLength > DUP_MIN_LENGTH /\ 100 * matches > DUP_OVERLAP_PERCENT * minLength

\* a variant that compares against the prior bodies as they were stored
checkForDuplicateContentRawExisting(content, existingContent) ==
  \E i \in DOMAIN existingContent : SimilarContent(Normalize(content), existingContent[i])

checkForDuplicateContent(content, existingContent) ==
  \E i \in DOMAIN existingContent :
     SimilarContent(Normalize(content), Normalize(existingContent[i]))

(* ------------------------------- scoring ------------------------------- *)
\* a variant without the penalty for a missing meta description
RawScoreMetaFree(totalViolations, missingCount, issueCount, totalPosts, hasMetaTags, hasGoodHeaders) ==
  100 - totalViolations * 5
      - missingCount * 5
      - issueCount * 2
      - (IF totalPosts < 20 THEN 10 ELSE IF totalPosts < 40 THEN 5 ELSE 0)
      - (IF ~hasGoodHeaders THEN 3 ELSE 0)

\* a variant that charges a small site the penalty of a middle-sized one
RawScoreFlatVolume(totalViolations, missingCount, issueCount, totalPosts, hasMetaTags, hasGoodHeaders) ==
  100 - totalViolations * 5
      - missingCount * 5
      - issueCount * 2
      - (IF totalPosts < 40 THEN 5 ELSE 0)
      - (IF ~hasMetaTags THEN 3 ELSE 0)
      - (IF ~hasGoodHeaders THEN 3 ELSE 0)

\* the score before clamping: 100 less the penalties of the scoring block
RawScoreIssuesAdded(totalViolations, missingCount, issueCount, totalPosts, hasMetaTags, hasGoodHeaders) ==
  100 - totalViolations * 5
      - missingCount * 5
      + issueCount * 2
      - (IF totalPosts < 20 THEN 10 ELSE IF totalPosts < 40 THEN 5 ELSE 0)
      - (IF ~hasMetaTags THEN 3 ELSE 0)
      - (IF ~hasGoodHeaders THEN 3 ELSE 0)

RawScore(totalViolations, missingCount, issueCount, totalPosts, hasMetaTags, hasGoodHeaders) ==
  100 - totalViolations * 5
      - missingCount * 5
      - issueCount * 2
      - (IF totalPosts < 20 THEN 10 ELSE IF totalPosts < 40 THEN 5 ELSE 0)
      - (IF ~hasMetaTags THEN 3 ELSE 0)
      - (IF ~hasGoodHeaders THEN 3 ELSE 0)

\* a variant that leaves the raw total as it is
ClampScoreNot(raw) == raw

\* Math.max(0, Math.min(100, Math.round(score))); the raw total is an integer
ClampScore(raw) ==
  LET capped == IF raw > 100 THEN 100 ELSE raw
  IN  IF capped < 0 THEN 0 ELSE capped

\* the score of a report
ScoreOf(totalViolations, missingCount, issueCount, totalPosts, hasMetaTags, hasGoodHeaders) ==
  ClampScore(RawScore(totalViolations, missingCount, issueCount, totalPosts,
                      hasMetaTags, hasGoodHeaders))

\* the one-line summary of a report
SummaryOf(totalViolations, findingCount, totalPosts) ==
  IF totalViolations > 0 THEN "violations"
  ELSE IF totalPosts < 20 THEN "low-content"
  ELSE "compliant"

(* ----------------------------- extractLinks ----------------------------- *)
\* the href starts with a scheme other than http(s), as in mailto:, tel: or
\* javascript: (letters up to a colon that comes before any slash)
HasOtherScheme(href) ==
  LET colon == FirstOf(href, {":"}, 1)
      slash == FirstOf(href, {"/", "?", "#"}, 1)
  IN  colon > 1 /\ colon <= Len(href) /\ colon < slash /\ AfterScheme(ToLower(href)) = 0

\* scheme and host of an absolute URL, the host in lower case
Origin(u) == ToLower(Slice(u, 1, HostEnd(u) - 1))

\* URL.href of an absolute URL: lower-case scheme and host, "/" for an empty path
Href(u) ==
  LET rest == Slice(u, HostEnd(u), Len(u))
  IN  Origin(u) \o (IF StartsWith(rest, "/") THEN rest ELSE "/" \o rest)

\* the directory of the base URL's path, with its trailing slash
BaseDir(baseUrl) ==
  LET path  == Pathname(baseUrl)
      slash == { i \in 1..Len(path) : CharAt(path, i) = "/" }
  IN  Slice(path, 1, CHOOSE i \in slash : \A j \in slash : i >= j)

\* new URL(href, baseUrl).href; "" when the constructor throws
Resolve(href, baseUrl) ==
  IF AfterScheme(ToLower(href)) > 0
    THEN (IF IsValidUrl(ToLower(href)) THEN Href(href) ELSE "")
  ELSE IF HasOtherScheme(href) THEN href
  ELSE IF StartsWith(href, "/") THEN Origin(baseUrl) \o href
  ELSE IF StartsWith(href, "?") \/ StartsWith(href, "#")
    THEN StripFragment(Href(baseUrl)) \o href
  ELSE Origin(baseUrl) \o BaseDir(baseUrl) \o href

\* /\.(jpg|jpeg|png|gif|svg|pdf|zip|mp4|mp3|ico|css|js)$/i
IsAssetUrl(full) ==
  \E x \in { ".jpg", ".jpeg", ".png", ".gif", ".svg", ".pdf", ".zip", ".mp4",
             ".mp3", ".ico", ".css", ".js" } :
    EndsWith(ToLower(Slice(full, Len(full) - 4, Len(full))), x)

\* a variant of the test without the comparison of hosts
LinkOfAnyHost(href, baseUrl) ==
  IF href = "" \/ StartsWith(href, "#") \/ StartsWith(href, "mailto:") THEN ""
  ELSE LET full == Resolve(href, baseUrl)
       IN  IF full = "" \/ HasOtherScheme(full) THEN ""
           ELSE IF IsAssetUrl(full) \/ Contains(full, "?replytocom=") THEN ""
           ELSE full

\* the test of one a[href] of extractLinks: the link it adds, "" when none
LinkOf(href, baseUrl) ==
  IF href = "" \/ StartsWith(href, "#") \/ StartsWith(href, "mailto:") THEN ""
  ELSE LET full == Resolve(href, baseUrl)
       IN  IF full = "" \/ HasOtherScheme(full) THEN ""
           ELSE IF Hostname(full) # Hostname(Href(baseUrl)) THEN ""
           ELSE IF IsAssetUrl(full) \/ Contains(full, "?replytocom=") THEN ""
           ELSE full

\* the elements of xs without repetition, in the order of their first
\* occurrence (halving keeps the evaluation shallow): the order of a Set
RECURSIVE DedupeRange(_, _, _)
DedupeRange(xs, lo, hi) ==
  IF lo > hi THEN <<>>
  ELSE IF lo = hi THEN <<xs[lo]>>
  ELSE LET mid   == (lo + hi) \div 2
           left  == DedupeRange(xs, lo, mid)
           seen  == Range(left)
       IN  left \o SelectSeq(DedupeRange(xs, mid + 1, hi), LAMBDA x : x \notin seen)

Dedupe(xs) == DedupeRange(xs, 1, Len(xs))

\* extractLinks(html, baseUrl), html given by the hrefs of its anchors in document order
extractLinks(hrefs, baseUrl) ==
  LET links == [ i \in DOMAIN hrefs |-> LinkOf(hrefs[i], baseUrl) ]
  IN  Dedupe(SelectSeq(links, LAMBDA l : l # ""))

(* -------------------------- checkRequiredPages ------------------------- *)
\* allLinks.find((l) => l.toLowerCase().includes(page))
RequiredPageLinked(page, allLinks) ==
  \E i \in DOMAIN allLinks : Contains(ToLower(allLinks[i]), page)

\* checkRequiredPages(allLinks).missing
MissingPages(allLinks) ==
  SelectSeq(REQUIRED_PAGES, LAMBDA page : ~RequiredPageLinked(page, allLinks))

\* checkRequiredPages(allLinks).found
FoundPages(allLinks) ==
  SelectSeq(REQUIRED_PAGES, LAMBDA page : RequiredPageLinked(page, allLinks))

(* ------------------------- analyzeContentQuality ----------------------- *)
\* the issues of analyzeContentQuality, from the word count of the content
\* containers and the numbers of h1, h2 and h3 elements
QualityIssues(wordCount, h1Count, h2Count, h3Count) ==
  (IF wordCount < MIN_CONTENT_WORDS
     THEN << "Thin content (" \o ToString(wordCount) \o " words < "
             \o ToString(MIN_CONTENT_WORDS) \o ")" >>
     ELSE <<>>)
  \o (IF h1Count > 0 /\ (h2Count > 0 \/ h3Count > 0)
        THEN <<>>
        ELSE << "Missing proper heading hierarchy (H1, H2, H3)" >>)

\* hasProperHeadings of analyzeContentQuality
HasProperHeadings(h1Count, h2Count, h3Count) ==
  h1Count > 0 /\ (h2Count > 0 \/ h3Count > 0)

(* ----------------------------- isSafeContent --------------------------- *)
safeKeywords ==
  { "how to", "tutorial", "guide", "tips", "review", "best", "top", "education",
    "learning", "news", "updates", "opinion", "analysis", "recipe", "cooking",
    "travel", "lifestyle", "fitness", "health" }

dangerKeywords ==
  { "casino", "betting", "gamble", "porn", "sex", "scam", "fake download",
    "lottery", "win money", "get rich", "miracle cure", "hack", "crack",
    "torrent", "free iphone", "make money fast", "hate speech" }

isSafeContent(text, urlPath) ==
  IF HasToolKeyword(ToLower(urlPath)) THEN FALSE
  ELSE LET lower == ToLower(text)
       IN  IF \E kw \in dangerKeywords : Contains(lower, kw) THEN FALSE
           ELSE \E kw \in safeKeywords : Contains(lower, kw)

(* -------------------------- detectClearViolations ---------------------- *)
clearViolationPhrases ==
  << "cracked software", "torrent download", "get rich quick", "make money fast",
     "win money online", "hack tool", "keygen", "serial number crack",
     "activation key crack", "click here to win", "amazing offer", "limited time",
     "only today", "act now", "fake review", "automated content",
     "cloaked content", "doorway page", "excessive ads" >>

\* a confidence the code sets, in hundredths
Confidence(hundredths) == [ kind |-> "number", val |-> hundredths ]

AD_ELEMENT_LIMIT == 10

\* detectClearViolations, from the text of the body element, the number of
\* crack/torrent anchors whose text names software, a game or a movie, the
\* number of anchors to an affiliate network and the number of ad elements
detectClearViolations(pageText, illegalLinks, affiliateLinks, adElements) ==
  LET lower   == ToLower(pageText)
      phrases == SelectSeq(clearViolationPhrases, LAMBDA ph : Contains(lower, ph))
      undisclosed == /\ ~Contains(lower, "affiliate") /\ ~Contains(lower, "sponsored")
                     /\ ~Contains(lower, "ad") /\ ~Contains(lower, "disclosure")
  IN  [ i \in DOMAIN phrases |->
          [ type |-> "Misleading", excerpt |-> phrases[i],
            confidence |-> Confidence(95), origin |-> "rule" ] ]
      \o [ i \in 1..illegalLinks |->
          [ type |-> "Copyright", excerpt |-> "Illegal download link",
            confidence |-> Confidence(90), origin |-> "rule" ] ]
      \o [ i \in 1..(IF undisclosed THEN affiliateLinks ELSE 0) |->
          [ type |-> "AffiliateDisclosure", excerpt |-> "Affiliate link without disclosure",
            confidence |-> Confidence(85), origin |-> "rule" ] ]
      \o (IF adElements > AD_ELEMENT_LIMIT
            THEN << [ type |-> "ExcessiveAds", excerpt |-> "High number of potential ad elements",
                      confidence |-> Confidence(80), origin |-> "rule" ] >>
            ELSE <<>>)

(* ---------------------------- analyzeTextWithAI ------------------------ *)
\* v.confidence > 0.8 in JavaScript: a number or a numeric string is compared
\* by value, an absent or non-numeric confidence compares false
ConfidenceAbove08(c) == c.kind \in {"number", "string"} /\ c.val > 80

\* a variant that keeps every violation with a confidence of 0.5 or more
KeepViolationFrom05(v) == v.confidence.kind \in {"number", "string"} /\ v.confidence.val >= 50

\* the predicate of parsedJson.violations.filter
KeepViolation(v) == ConfidenceAbove08(v.confidence)

\* the result the adapter returns without a parsed answer; summaryIsString
\* tells whether the summary of a result is a string (when it is not, summary
\* holds what String() makes of it)
EmptyResult(summary) ==
  [ violations |-> <<>>, summary |-> summary, summaryIsString |-> TRUE,
    suggestions |-> <<>> ]

\* what analyzeTextWithAI makes of the completion r of the external service:
\* r.kind tells whether the request raised ("throw"), the message had no
\* content, the content held no {...}, JSON.parse raised, or an object was parsed
ParseResponse(r) ==
  CASE r.kind = "throw"     -> EmptyResult("AI error")
    [] r.kind = "nocontent" -> EmptyResult("AI returned no content")
    [] r.kind = "nojson"    -> EmptyResult("AI response not in expected JSON format")
    [] r.kind = "badjson"   -> EmptyResult("AI error")
    [] OTHER ->
         [ violations  |-> IF r.violationsIsArray
                             THEN SelectSeq(r.violations, KeepViolation) ELSE <<>>,
           summary     |-> IF r.summary = "" THEN "Analysis complete" ELSE r.summary,
           summaryIsString |-> r.summary = "" \/ r.summaryIsString,
           suggestions |-> r.suggestions ]

\* the request is answered by the pre-filter or for want of a client, without
\* a call of the external service
AnsweredLocally(text, url, hasClient) ==
  isSafeContent(text, Pathname(url)) \/ ~hasClient

\* analyzeTextWithAI(text, url, context), r the completion of the external service
analyzeTextWithAI(text, url, hasClient, r) ==
  IF isSafeContent(text, Pathname(url)) THEN EmptyResult("Safe content")
  ELSE IF ~hasClient THEN EmptyResult("API key missing or client init failed")
  ELSE ParseResponse(r)

(* ------------------------- helpers of the handler ---------------------- *)
\* a multiset of strings, as the function from its members to their counts
BagAdd(bag, x) ==
  IF x \in DOMAIN bag THEN [bag EXCEPT ![x] = @ + 1] ELSE bag @@ (x :> 1)

RECURSIVE BagAddAll(_, _, _)
BagAddAll(bag, xs, i) ==
  IF i > Len(xs) THEN bag ELSE BagAddAll(BagAdd(bag, xs[i]), xs, i + 1)

\* links.forEach((l) => crawled.add(l)) on a set kept in insertion order
AddLinks(crawled, links) ==
  LET seen == Range(crawled)
  IN  crawled \o SelectSeq(Dedupe(links), LAMBDA l : l \notin seen)

\* Array.prototype.slice(0, n)
Take(xs, n) == IF Len(xs) <= n THEN xs ELSE SubSeq(xs, 1, n)

RECURSIVE Join(_, _)
\* Array.prototype.join
Join(xs, sep) ==
  IF xs = <<>> THEN ""
  ELSE IF Len(xs) = 1 THEN xs[1]
  ELSE xs[1] \o sep \o Join(Tail(xs), sep)

RECURSIVE Flatten(_)
\* Array.prototype.flatMap on the lists already mapped
Flatten(xss) == IF xss = <<>> THEN <<>> ELSE Head(xss) \o Flatten(Tail(xss))

RECURSIVE SumSeq(_)
SumSeq(ns) == IF ns = <<>> THEN 0 ELSE Head(ns) + SumSeq(Tail(ns))

\* contentText.trim().split(/\s+/).length: the number of words, 1 for no word
WordCount(text) ==
  LET starts == { i \in 1..Len(text) :
                    /\ CharAt(text, i) \notin WHITESPACE
                    /\ (i = 1 \/ CharAt(text, i - 1) \in WHITESPACE) }
  IN  IF starts = {} THEN 1 ELSE Cardinality(starts)

CONTEXT_LIMIT == 16000

MIN_CONTEXT_LENGTH == 200

\* the template of fullContext and homepageContext, cut to 16000 characters
ContextOf(title, h1, metaDesc, bodyText) ==
  Slice("\nTITLE: " \o title \o "\nH1: " \o h1 \o "\nMETA: " \o metaDesc
        \o "\nCONTENT: " \o bodyText \o "\n", 1, CONTEXT_LIMIT)

\* bodyText of a content page: the text of the content containers, white space
\* collapsed, trimmed
PostBodyText(page) == Trim(CollapseWhitespace(page.main))

\* fullContext of a content page
FullContext(page) == ContextOf(Trim(page.title), Trim(page.h1), page.metaDesc, PostBodyText(page))

\* a variant of the skip test that never skips
TooShortNever(fullContext) == FALSE

\* fullContext.length < 200
TooShort(fullContext) == Len(fullContext) < MIN_CONTEXT_LENGTH

\* homepageContext
HomepageContext(page) ==
  ContextOf(Trim(page.title), Trim(page.h1), page.metaDesc,
            Slice(CollapseWhitespace(page.bodyText), 1, CONTEXT_LIMIT))

\* $("main, article, ..., body").text(): the text of the body element followed
\* by the text of the content container inside it
ContentText(page) == page.bodyText \o page.main

\* analyzeContentQuality(page).issues
PageQualityIssues(page) ==
  QualityIssues(WordCount(Trim(ContentText(page))), page.h1Count, page.h2Count, page.h3Count)

\* detectClearViolations(page)
PageClearViolations(page) ==
  detectClearViolations(page.bodyText, page.illegalLinks, page.affiliateLinks, page.adElements)

\* the violations and the summary of an adapter result after the rule-based
\* violations of the page are combined into it
WithClearViolations(ai, clearViolations) ==
  IF clearViolations = <<>> THEN ai
  ELSE [ai EXCEPT !.violations = @ \o clearViolations,
                  !.summary = IF @ = "Safe content" THEN "Policy violations detected" ELSE @]

\* the PageFinding pushed for a duplicate page
DuplicateFinding(p) ==
  [ url |-> p,
    violations |-> << [ type |-> "DuplicateContent",
                        excerpt |-> "Content appears to be duplicate or highly similar to other pages",
                        confidence |-> Confidence(90), origin |-> "duplicate" ] >>,
    summary |-> "Duplicate content detected", summaryIsString |-> TRUE,
    suggestions |-> << "Rewrite content to be unique", "Use canonical tags if necessary" >>,
    qualityIssues |-> <<>> ]

\* ai.summary?.toLowerCase() raises a TypeError: the summary is not a string
\* and the two tests before it in the condition are false
SummaryTestRaises(ai) ==
  Len(ai.violations) = 0 /\ Len(ai.suggestions) = 0 /\ ~ai.summaryIsString

\* the message of that TypeError
SUMMARY_FAULT == "ai.summary?.toLowerCase is not a function"

\* the condition under which the combined result of a page is pushed
HasIssues(ai, issues) ==
  \/ Len(ai.violations) > 0
  \/ Len(ai.suggestions) > 0
  \/ Contains(ToLower(ai.summary), "violation")
  \/ Len(issues) > 0

\* combinedResult of an analyzed page
CombinedResult(p, ai, issues) ==
  LET s1 == IF Len(issues) > 0
              THEN (IF ai.summary = "" THEN "Content issues detected" ELSE ai.summary)
                   \o " (Quality: " \o Join(issues, ", ") \o ")"
              ELSE ai.summary
      s2 == IF Len(ai.suggestions) > 0 /\ Len(ai.violations) = 0
              THEN (IF s1 = "" THEN "Potential issues found" ELSE s1)
                   \o " (AI Suggestions: " \o Join(ai.suggestions, ", ") \o ")"
              ELSE s1
  IN  [ url |-> p, violations |-> ai.violations, summary |-> s2,
        summaryIsString |-> \/ ai.summaryIsString
                            \/ Len(issues) > 0
                            \/ (Len(ai.suggestions) > 0 /\ Len(ai.violations) = 0),
        suggestions |-> ai.suggestions, qualityIssues |-> issues ]

SUGGESTION_LIMIT == 15

EXPAND_SEEDS == 20

concurrency == 12

\* a variant that puts the two reminders before the suggestions of the pages
AllSuggestionsRemindersFirst(homepageAI, pagesWithIssues, missing, homepageStructureIssues) ==
  (IF Len(missing) > 0 THEN << "Add missing pages: " \o Join(missing, ", ") >> ELSE <<>>)
  \o (IF Len(homepageStructureIssues) > 0
        THEN << "Fix homepage structure: " \o Join(homepageStructureIssues, ", ") >>
        ELSE <<>>)
  \o homepageAI.suggestions
  \o Flatten([ i \in DOMAIN pagesWithIssues |-> pagesWithIssues[i].suggestions ])

\* the aiSuggestions of the report, before the cut
AllSuggestions(homepageAI, pagesWithIssues, missing, homepageStructureIssues) ==
  homepageAI.suggestions
  \o Flatten([ i \in DOMAIN pagesWithIssues |-> pagesWithIssues[i].suggestions ])
  \o (IF Len(missing) > 0 THEN << "Add missing pages: " \o Join(missing, ", ") >> ELSE <<>>)
  \o (IF Len(homepageStructureIssues) > 0
        THEN << "Fix homepage structure: " \o Join(homepageStructureIssues, ", ") >>
        ELSE <<>>)

\* totalViolations of the report
TotalViolations(homepageAI, pagesWithIssues) ==
  SumSeq([ i \in DOMAIN pagesWithIssues |-> Len(pagesWithIssues[i].violations) ])
  + Len(homepageAI.violations)

\* the body of the response that carries a report
ReportOf(url, home, allLinks, posts, homepageAI, pagesWithIssues) ==
  LET issues   == PageQualityIssues(home)
      headers  == HasProperHeadings(home.h1Count, home.h2Count, home.h3Count)
      missing  == MissingPages(allLinks)
      total    == TotalViolations(homepageAI, pagesWithIssues)
      all      == AllSuggestions(homepageAI, pagesWithIssues, missing, issues)
  IN  [ kind |-> "report", status |-> 200, url |-> url,
        totalViolations |-> total,
        found |-> FoundPages(allLinks), missing |-> missing,
        postCount |-> Len(posts), hasMetaTags |-> home.hasMeta,
        hasGoodHeaders |-> headers, structureIssues |-> issues,
        pagesWithIssues |-> pagesWithIssues,
        aiSuggestions |-> Take(all, SUGGESTION_LIMIT),
        score |-> ScoreOf(total, Len(missing), Len(issues), Len(posts), home.hasMeta, headers),
        summary |-> SummaryOf(total, Len(pagesWithIssues), Len(posts)) ]

\* the response of an early return: a status and a body that holds `error` only
\* (fields names the members of the body; message is "" when it has none)
ErrorOf(status, error) ==
  [ kind |-> "error", status |-> status, fields |-> {"error"},
    error |-> error, message |-> "" ]

\* the response of the catch block: status 500, { error: "Scan failed", message }
FatalOf(message) ==
  [ kind |-> "error", status |-> 500, fields |-> {"error", "message"},
    error |-> "Scan failed", message |-> message ]

(* ============================== the state ============================== *)
\* the URL classifier on its own: its input and its result
VARIABLES urlIn, urlOut

\* the duplicate detector on its own: the body, the prior bodies, the result
VARIABLES dupBody, dupPrior, dupOut

\* the scoring arithmetic on its own: its inputs, the score, the score before
\* the last change of an input and the input that changed last
VARIABLES scIn, scScore, scPrev, scOp

\* one POST request: the site it is sent against, the url and the action of
\* its body, whether the classifier credential is configured, and where the
\* handler stands
VARIABLES siteId, reqUrl, reqAction, hasKey, pc

\* the fetches that returned the empty string so far, each as the pair of its
\* phase ("expand" or "post") and its URL
VARIABLES failedFetches

\* what the handler has done so far: the fetches issued (a multiset of URLs),
\* the number of extractLinks calls, the URLs analyzeTextWithAI was called for
VARIABLES fetched, extractCalls, classifierCalls, homepage

\* the handler's locals: allLinks, crawled (in insertion order), the indices of
\* allLinks whose expansion fetch is in flight, uniquePosts, homepageAI,
\* allContentHashes, pagesWithIssues, the start index of the running batch,
\* the state of each of its tasks, and the response
VARIABLES allLinks, crawled, expTasks, uniquePosts, homepageAI, allContentHashes,
          pagesWithIssues, batchStart, tasks, response

urlVars == <<urlIn, urlOut>>

reqVars == <<siteId, reqUrl, reqAction, hasKey>>

scanVars == <<reqVars, failedFetches, pc, fetched, extractCalls, classifierCalls, homepage,
              allLinks, crawled, expTasks, uniquePosts, homepageAI, allContentHashes,
              pagesWithIssues, batchStart, tasks, response>>

dupVars == <<dupBody, dupPrior, dupOut>>

scVars == <<scIn, scScore, scPrev, scOp>>

vars == <<urlVars, dupVars, scVars, scanVars>>

(* ------------------- the URL classifier on its own --------------------- *)
Origins == { "https://site.com", "http://Blog.Site.com" }

Paths ==
  { "", "/", "/about", "/about-us/", "/contact", "/privacy-policy", "/terms",
    "/disclaimer", "/legal/disclaimer-notice", "/download", "/tag/keygen",
    "/category/free-download/", "/about/Torrent-Movie", "/apk-free",
    "/monkey-island", "/2024/05/my-first-post.html", "/2024/05/", "/2024/",
    "/blog/my-long-post", "/blog/12345", "/blog/page/2", "/blog/post.php",
    "/feed", "/news", "/a/b", "/Contact/Download-Form" }

Queries == { "", "?p=1", "?next=/about" }

Fragments == { "", "#top", "#" }

\* strings that new URL() does not parse: empty, without a scheme, relative
MalformedUrls == { "", "not a url", "site.com/post-one", "/blog/post-one", "https://" }

UrlInputs ==
  { o \o p \o q \o f : o \in Origins, p \in Paths, q \in Queries, f \in Fragments }
  \cup MalformedUrls

UrlInit == urlIn \in UrlInputs /\ urlOut = "none"

UrlIdle == urlIn = "" /\ urlOut = "idle"

\* one call of the classifier on the chosen input
UrlClassify ==
  /\ urlOut = "none"
  /\ urlOut' = isLikelyPostUrlCall(urlIn)
  /\ UNCHANGED <<urlIn, dupVars, scVars, scanVars>>

(* ------------------ the duplicate detector on its own ------------------ *)
RECURSIVE Repeat(_, _)
\* String.prototype.repeat
Repeat(unit, k) ==
  IF k <= 0 THEN ""
  ELSE IF k = 1 THEN unit
  ELSE Repeat(unit, k \div 2) \o Repeat(unit, k - (k \div 2))

MaxPrior == 2

\* bodies around the 100-character floor: empty, of exactly 100 and of 101
\* normalized characters, with capitals, with runs of white space, and one
\* that agrees with another in 81 of 101 positions, one that agrees in 80, and
\* two of 202 characters that agree in every second position
DupBodies ==
  { "",
    Repeat("a", DUP_MIN_LENGTH),
    Repeat("a", DUP_MIN_LENGTH + 1),
    Repeat("Ab", 51),
    Repeat(" x \t y", 30),
    Repeat("a", 81) \o Repeat("b", 20),
    Repeat("a", 80) \o Repeat("b", 21),
    Repeat("ab", 101),
    Repeat("ac", 101) }

DupInit == dupBody \in DupBodies /\ dupPrior = <<>> /\ dupOut = "none"

DupIdle == dupBody = "" /\ dupPrior = <<>> /\ dupOut = "idle"

\* one call of the detector on the chosen body and the prior bodies
DupCall ==
  /\ dupOut = "none"
  /\ dupOut' = IF checkForDuplicateContent(dupBody, dupPrior) THEN "true" ELSE "false"
  /\ UNCHANGED <<dupBody, dupPrior, urlVars, scVars, scanVars>>

\* the caller puts the body among the prior bodies and takes the next body
DupFeedNext ==
  /\ dupOut \in {"true", "false"}
  /\ Len(dupPrior) < MaxPrior
  /\ dupPrior' = Append(dupPrior, dupBody)
  /\ dupBody' \in DupBodies
  /\ dupOut' = "none"
  /\ UNCHANGED <<urlVars, scVars, scanVars>>

(* ------------------ the scoring arithmetic on its own ------------------ *)
MaxViolations == 22

\* the post counts on both sides of the two volume thresholds
PostCounts == { 0, 19, 20, 39, 40 }

\* the homepage quality check yields at most two issues, and the heading issue
\* exactly when hasProperHeadings is false
QualityConsistent(in) ==
  /\ in.issues \in 0..2
  /\ in.headers => in.issues <= 1
  /\ ~in.headers => in.issues >= 1

ScoreInputs ==
  { in \in [ violations : 0..MaxViolations, missing : 0..Len(REQUIRED_PAGES),
             issues : 0..2, posts : PostCounts, meta : BOOLEAN, headers : BOOLEAN ] :
      QualityConsistent(in) }

ScoreOfInputs(in) ==
  ScoreOf(in.violations, in.missing, in.issues, in.posts, in.meta, in.headers)

ScInit == scIn \in ScoreInputs /\ scScore = -1 /\ scPrev = -1 /\ scOp = "none"

ScIdle ==
  /\ scIn = [ violations |-> 0, missing |-> 0, issues |-> 0, posts |-> 0,
              meta |-> TRUE, headers |-> TRUE ]
  /\ scScore = -1 /\ scPrev = -1 /\ scOp = "idle"

\* the scoring block on the chosen inputs
ScCompute ==
  /\ scOp = "none"
  /\ scScore' = ScoreOfInputs(scIn)
  /\ scOp' = "score"
  /\ UNCHANGED <<scIn, scPrev, urlVars, dupVars, scanVars>>

\* the scoring block again, on inputs that differ from the last ones as `in` does
ScRescore(in, op) ==
  /\ scOp \notin {"none", "idle"}
  /\ in \in ScoreInputs
  /\ scIn' = in
  /\ scPrev' = scScore
  /\ scScore' = ScoreOfInputs(in)
  /\ scOp' = op
  /\ UNCHANGED <<urlVars, dupVars, scanVars>>

\* one more violation, all else equal
ScAddViolation == ScRescore([scIn EXCEPT !.violations = @ + 1], "violation")

\* one more missing required page, all else equal
ScAddMissing == ScRescore([scIn EXCEPT !.missing = @ + 1], "missing")

\* one more homepage issue: thin content (the headings flag stays) or the
\* heading issue (the headings flag falls)
ScAddIssue ==
  \/ ScRescore([scIn EXCEPT !.issues = @ + 1], "issue")
  \/ ScRescore([scIn EXCEPT !.issues = @ + 1, !.headers = FALSE], "issue")

(* ------------------------------ the sites ------------------------------ *)
TargetUrl == "https://site.com"

\* 168 characters without a safe, danger or violation keyword
Filler == Repeat("lorem ipsum ", 14)

\* the same text in other letter case and white space
FillerVariant == Repeat("Lorem \t IPSUM\n", 14)

\* 180 characters that agree with Filler in few positions
OtherText == Repeat("dolor sit amet ", 12)

\* 142 characters once trimmed: under 200, over 100
ShortText == Repeat("short text ", 13)

\* as many words as the thin-content floor asks for
ManyWords == Repeat("a ", MIN_CONTENT_WORDS)

\* a parsed page: the hrefs of its anchors, its title, its first h1, the content
\* of its meta description ("" when it has none), the text of its content
\* container, the rest of the text of its body and the number of its h2 elements
MakePage(hrefs, title, h1, metaDesc, main, rest, h2Count) ==
  [ hrefs |-> hrefs, title |-> title, h1 |-> h1, metaDesc |-> metaDesc,
    hasMeta |-> metaDesc # "", main |-> main,
    bodyText |-> h1 \o "\n" \o main \o "\n" \o rest,
    h1Count |-> IF h1 = "" THEN 0 ELSE 1, h2Count |-> h2Count, h3Count |-> 0,
    illegalLinks |-> 0, affiliateLinks |-> 0, adElements |-> 0 ]

LegalHrefs == << "/about", "/contact", "/privacy", "/terms", "/disclaimer" >>

\* the number of links of each tag page of the site "big"
BigFanout == 250

\* a homepage that links the five required pages and nothing else
LegalSite(metaDesc) ==
  [ url   |-> TargetUrl,
    flaky |-> { TargetUrl },
    web   |-> (TargetUrl :> MakePage(LegalHrefs, "Home guide", "Welcome", metaDesc, "", ManyWords, 1))
              @@ ("https://site.com/about" :> MakePage(<<"/">>, "About", "About us", "", "", "", 0)) ]

\* a blog whose two posts hold the same text, with links extractLinks drops
BlogSite ==
  [ url   |-> TargetUrl,
    flaky |-> { TargetUrl, "https://site.com/post-two" },
    web   |-> (TargetUrl :> MakePage(<< "/about", "/post-one", "/post-two", "#top",
                                        "mailto:me@site.com", "https://other.com/x",
                                        "/logo.png", "/download#top" >>,
                                     "My blog", "Blog", "", "", "casino night", 0))
              @@ ("https://site.com/post-one" :>
                    MakePage(<<"/blog/extra-post">>, "Post one guide", "Post one", "", Filler, "", 1))
              @@ ("https://site.com/post-two" :>
                    MakePage(<<>>, "Post two", "Post two", "", FillerVariant, "", 0)) ]

\* pages of little text: one far below the floor of 200 characters, one whose
\* body is below it while its title and heading lift the context above it;
\* one page is linked with and without a fragment, one only with a fragment
NotesSite ==
  [ url   |-> TargetUrl,
    flaky |-> { TargetUrl },
    web   |-> (TargetUrl :> MakePage(<< "/tiny", "/short-note", "/long-read",
                                        "/long-read#part-2", "/deep-dive#intro" >>,
                                     "Notes guide", "Notes", "Some notes", "", "", 1))
              @@ ("https://site.com/deep-dive" :>
                    MakePage(<<>>, "Deep dive guide", "", "", Filler, "", 0))
              @@ ("https://site.com/tiny" :>
                    MakePage(<<>>, "", "", "", "tiny text", "", 0))
              @@ ("https://site.com/short-note" :>
                    MakePage(<<>>, "A short note about things", "Short note", "", ShortText, "", 0))
              @@ ("https://site.com/long-read" :>
                    MakePage(<<>>, "Long read tips", "", "", OtherText, "", 0)) ]

\* three tag pages of BigFanout links each
BigSite ==
  [ url   |-> TargetUrl,
    flaky |-> { TargetUrl },
    web   |-> (TargetUrl :> MakePage(<< "/tag/a", "/tag/b", "/tag/c" >>,
                                     "Tags guide", "Tags", "All tags", "", "", 1))
              @@ [ u \in { "https://site.com/tag/a", "https://site.com/tag/b", "https://site.com/tag/c" } |->
                     MakePage([ i \in 1..BigFanout |-> Slice(u, Len(TargetUrl) + 1, Len(u)) \o "/" \o ToString(i) ],
                              "Tag", "Tag", "", "", "", 0) ] ]

\* a homepage with one link more than MAX_PAGES
FloodSite ==
  [ url   |-> TargetUrl,
    flaky |-> { TargetUrl },
    web   |-> (TargetUrl :> MakePage([ i \in 1..(MAX_PAGES + 1) |-> "/tag/" \o ToString(i) ],
                                     "Flood guide", "Flood", "Many links", "", "", 1)) ]

\* the number of posts of the site "archive": one more than a batch holds
ArchivePosts == 13

\* an index page that links more posts than one batch holds, none of them served
ArchiveSite ==
  [ url   |-> TargetUrl,
    flaky |-> { TargetUrl },
    web   |-> (TargetUrl :> MakePage(<< "/archive" >>, "Archive guide", "Archive", "Old posts", "", "", 1))
              @@ ("https://site.com/archive" :>
                    MakePage([ i \in 1..ArchivePosts |-> "/story-" \o ToString(i) ],
                             "Archive", "Archive", "", "", "", 0)) ]

\* one content page without any quality issue: over 300 words, an h1, an h2
EssaySite ==
  [ url   |-> TargetUrl,
    flaky |-> { TargetUrl },
    web   |-> (TargetUrl :> MakePage(<< "/long-essay" >>, "Essay guide", "Essays", "One essay", "", "", 1))
              @@ ("https://site.com/long-essay" :>
                    MakePage(<<>>, "A long essay", "Essay", "", ManyWords, "", 1)) ]

Sites ==
  [ archive |-> ArchiveSite, essay |-> EssaySite, legal |-> LegalSite("A site about things"), legalNoMeta |-> LegalSite(""),
    blog |-> BlogSite, notes |-> NotesSite, big |-> BigSite, flood |-> FloodSite ]

\* the largest number of homepage links of the sites the seeding is run on
MaxSeedLinks == 24

\* a homepage that links n pages of its site, none of them the homepage
WideSite(n) ==
  [ url   |-> TargetUrl,
    flaky |-> { TargetUrl },
    web   |-> (TargetUrl :> MakePage([ i \in 1..n |-> "/page-" \o ToString(i) ],
                                     "Wide guide", "Wide", "Some links", "", "", 1)) ]

WideId(n) == "wide" \o ToString(n)

WideSites ==
  [ id \in { WideId(n) : n \in 0..MaxSeedLinks } |->
      WideSite(CHOOSE n \in 0..MaxSeedLinks : id = WideId(n)) ]

\* every site a request can name
AllSites == Sites @@ WideSites

\* the completions of the external classifier a request can get
\* a violation of the classifier's answer; its confidence is a number, the
\* string of a number (kind "string") or missing (kind "absent")
AIViolation(type, hundredths) ==
  [ type |-> type, excerpt |-> "quote", confidence |-> Confidence(hundredths), origin |-> "ai" ]

AIJson(isArray, violations, summary, suggestions) ==
  [ kind |-> "json", violationsIsArray |-> isArray, violations |-> violations,
    summary |-> summary, summaryIsString |-> TRUE, suggestions |-> suggestions ]

\* eight suggestions of one answer
ManySuggestions ==
  << "Remove adult content", "Remove scam offers", "Add an about page",
     "Add a contact page", "Add a privacy policy", "Add terms of service",
     "Add a disclaimer", "Write longer articles" >>

AIResponses ==
  { [ AIJson(FALSE, <<>>, "", <<>>) EXCEPT !.kind = "throw" ],
    AIJson(TRUE, << AIViolation("Scam", 95), AIViolation("Adult", 50) >>,
           "Policy violation found", ManySuggestions),
    AIJson(TRUE, << AIViolation("Clickbait", 79), AIViolation("Fake", 80),
                    AIViolation("Spam", 150), AIViolation("Hate", -90),
                    [ AIViolation("Phishing", 90) EXCEPT !.confidence.kind = "string" ],
                    [ AIViolation("Piracy", 0) EXCEPT !.confidence.kind = "absent" ] >>, "", <<>>),
    AIJson(FALSE, <<>>, "All clear", <<>>),
    [ AIJson(TRUE, <<>>, "5", <<>>) EXCEPT !.summaryIsString = FALSE ],
    AIJson(TRUE, << AIViolation("Adult", 60) >>, "No violation found", <<>>) }

\* the answer of a request the adapter settles without the external service
NoResponse == [ AIJson(FALSE, <<>>, "", <<>>) EXCEPT !.kind = "none" ]

(* ------------------------------- fetchHTML ----------------------------- *)
\* the page the site serves at a URL (the fragment is not sent)
HasPage(u) == StripFragment(u) \in DOMAIN AllSites[siteId].web

PageAt(u) == AllSites[siteId].web[StripFragment(u)]

\* the outcomes of fetchHTML(u): TRUE for markup, FALSE for the empty string
\* every failure collapses to
FetchOutcomes(u) ==
  (IF HasPage(u) THEN {TRUE} ELSE {})
  \cup (IF ~HasPage(u) \/ StripFragment(u) \in AllSites[siteId].flaky THEN {FALSE} ELSE {})

\* what fetchHTML returns for a page that was served, as opposed to ""
MARKUP == "<html>"

\* cheerio.load(""): a document without any element
EmptyPage == MakePage(<<>>, "", "", "", "", "", 0)

\* cheerio.load(html) of the markup fetched at u
Parsed(u, html) == IF html = "" THEN EmptyPage ELSE PageAt(u)

\* the parsed homepage
HomePage == Parsed(reqUrl, homepage)

(* ------------------------------ POST /scan ----------------------------- *)
NoTasks == [ k \in {} |-> "done" ]

NoBag == [ u \in {} |-> 0 ]

NoAI == EmptyResult("")

NoResponseYet == [ kind |-> "none" ]

\* homepage before the homepage fetch settles
PENDING == "(pending)"

ScanLocalsInit ==
  /\ fetched = NoBag /\ extractCalls = 0 /\ classifierCalls = NoBag
  /\ homepage = PENDING /\ failedFetches = {}
  /\ allLinks = <<>> /\ crawled = <<>> /\ expTasks = {} /\ uniquePosts = <<>>
  /\ homepageAI = NoAI /\ allContentHashes = <<>> /\ pagesWithIssues = <<>>
  /\ batchStart = 0 /\ tasks = NoTasks /\ response = NoResponseYet

\* the sites the snippet verification of the dashboard is asked for
VerifySites == { "legal", "notes" }

ScanInit ==
  /\ siteId \in DOMAIN Sites
  /\ reqUrl \in { "", "not a url", Sites[siteId].url }
  /\ reqAction \in (IF siteId \in VerifySites THEN { "", "verify-script" } ELSE { "" })
  /\ hasKey \in BOOLEAN
  /\ pc = "start"
  /\ ScanLocalsInit

\* the requests of the seeding runs: a homepage of every width, and the flood
SeedInit ==
  /\ siteId \in DOMAIN WideSites \cup { "flood" }
  /\ reqUrl \in { "", "not a url", AllSites[siteId].url }
  /\ reqAction = ""
  /\ hasKey \in BOOLEAN
  /\ pc = "start"
  /\ ScanLocalsInit

ScanIdle ==
  /\ siteId = "legal" /\ reqUrl = "" /\ reqAction = "" /\ hasKey = FALSE /\ pc = "idle"
  /\ ScanLocalsInit

notScanVars == <<urlVars, dupVars, scVars>>

\* POST up to its first await: the two early returns, else the homepage fetch
Start ==
  /\ pc = "start"
  /\ IF reqUrl = ""
       THEN /\ response' = ErrorOf(400, "URL required")
            /\ pc' = "done"
            /\ UNCHANGED fetched
     ELSE IF ~hasKey
       THEN /\ response' = ErrorOf(500, "OpenAI API key is missing or invalid")
            /\ pc' = "done"
            /\ UNCHANGED fetched
     ELSE /\ fetched' = BagAdd(fetched, reqUrl)
          /\ pc' = "homepage"
          /\ UNCHANGED response
  /\ UNCHANGED <<reqVars, failedFetches, homepage, extractCalls, classifierCalls, allLinks,
                 crawled, expTasks, uniquePosts, homepageAI, allContentHashes,
                 pagesWithIssues, batchStart, tasks, notScanVars>>

\* a variant of the test that lets an empty homepage through
HomepageMissingNever(html) == FALSE

\* if (!homepage) throw new Error("Failed to fetch homepage")
HomepageMissing(html) == html = ""

\* a variant of the slice that issues an expansion fetch for every link
SeedIndicesAll(links) == 1..Len(links)

\* the indices of the links whose expansion fetch is issued:
\* allLinks.slice(0, 20), none when the set is over the cap already
SeedIndices(links) ==
  IF Len(links) > MAX_PAGES THEN {}
  ELSE 1..(IF Len(links) < EXPAND_SEEDS THEN Len(links) ELSE EXPAND_SEEDS)

\* the homepage fetch settles: the throw on an empty homepage, else the links
\* are extracted, the crawl set is seeded and the expansion fetches are issued
HomepageFetched ==
  /\ pc = "homepage"
  /\ \E ok \in FetchOutcomes(reqUrl) :
       LET html == IF ok THEN MARKUP ELSE ""
       IN  /\ homepage' = html
           /\ IF HomepageMissing(html)
                THEN /\ response' = FatalOf("Failed to fetch homepage")
                     /\ pc' = "done"
                     /\ UNCHANGED <<fetched, extractCalls, allLinks, crawled, expTasks>>
                ELSE LET links == extractLinks(Parsed(reqUrl, html).hrefs, reqUrl)
                         seeds == SeedIndices(links)
                     IN  /\ allLinks' = links
                         /\ crawled' = links
                         /\ extractCalls' = extractCalls + 1
                         /\ expTasks' = seeds
                         /\ fetched' = BagAddAll(fetched, SubSeq(links, 1, Cardinality(seeds)), 1)
                         /\ pc' = "expanding"
                         /\ UNCHANGED response
  /\ UNCHANGED <<reqVars, failedFetches, classifierCalls, uniquePosts, homepageAI,
                 allContentHashes, pagesWithIssues, batchStart, tasks, notScanVars>>

\* the expansion fetch of allLinks[i] settles: its links are merged
ExpandComplete(i) ==
  /\ pc = "expanding"
  /\ i \in expTasks
  /\ \E ok \in FetchOutcomes(allLinks[i]) :
       IF ~ok
         THEN /\ failedFetches' = failedFetches \cup { <<"expand", allLinks[i]>> }
              /\ UNCHANGED <<crawled, extractCalls>>
         ELSE /\ crawled' = AddLinks(crawled, extractLinks(PageAt(allLinks[i]).hrefs, reqUrl))
              /\ extractCalls' = extractCalls + 1
              /\ UNCHANGED failedFetches
  /\ expTasks' = expTasks \ {i}
  /\ UNCHANGED <<reqVars, homepage, pc, fetched, classifierCalls, allLinks,
                 uniquePosts, homepageAI, allContentHashes, pagesWithIssues, batchStart,
                 tasks, response, notScanVars>>

\* .map((u) => u.split("#")[0])
StripAll(xs) == [ i \in DOMAIN xs |-> StripFragment(xs[i]) ]

\* Array.from(new Set(posts)): the crawl set filtered by isLikelyPostUrl, fragments cut, deduplicated
UniquePostsOf(crawl) == Dedupe(StripAll(SelectSeq(crawl, isLikelyPostUrl)))

\* Promise.all of the expansion resolves: the posts are selected and the
\* homepage is handed to analyzeTextWithAI
Classify ==
  /\ pc = "expanding"
  /\ expTasks = {}
  /\ uniquePosts' = UniquePostsOf(crawled)
  /\ classifierCalls' = BagAdd(classifierCalls, reqUrl)
  /\ pc' = "homepageAI"
  /\ UNCHANGED <<reqVars, failedFetches, homepage, fetched, extractCalls, allLinks, crawled,
                 expTasks, homepageAI, allContentHashes, pagesWithIssues,
                 batchStart, tasks, response, notScanVars>>

\* the completions a call of analyzeTextWithAI can meet
ResponsesFor(text, url) ==
  IF AnsweredLocally(text, url, hasKey) THEN { NoResponse } ELSE AIResponses

\* the indices of uniquePosts in the batch that starts after index `start`
BatchIndices(start) ==
  (start + 1)..(IF start + concurrency < Len(uniquePosts) THEN start + concurrency ELSE Len(uniquePosts))

\* the URLs of a batch, in order
BatchUrls(start) == [ j \in 1..Cardinality(BatchIndices(start)) |-> uniquePosts[start + j] ]

\* the homepage's classification settles; the first batch of fetches is issued
HomepageAnalyzed ==
  /\ pc = "homepageAI"
  /\ \E r \in ResponsesFor(HomepageContext(HomePage), reqUrl) :
       homepageAI' = WithClearViolations(
                       analyzeTextWithAI(HomepageContext(HomePage), reqUrl, hasKey, r),
                       PageClearViolations(HomePage))
  /\ batchStart' = 0
  /\ tasks' = [ k \in BatchIndices(0) |-> "fetching" ]
  /\ fetched' = BagAddAll(fetched, BatchUrls(0), 1)
  /\ pc' = "batch"
  /\ UNCHANGED <<reqVars, failedFetches, homepage, extractCalls, classifierCalls, allLinks,
                 crawled, expTasks, uniquePosts, allContentHashes, pagesWithIssues,
                 response, notScanVars>>

\* a variant in which the failed fetch of a content page raises into the catch
\* block of POST
TaskFetchedAborting(k) ==
  /\ pc = "batch"
  /\ k \in DOMAIN tasks
  /\ tasks[k] = "fetching"
  /\ FALSE \in FetchOutcomes(uniquePosts[k])
  /\ failedFetches' = failedFetches \cup { <<"post", uniquePosts[k]>> }
  /\ tasks' = [tasks EXCEPT ![k] = "done"]
  /\ response' = FatalOf("Failed to fetch page")
  /\ pc' = "done"
  /\ UNCHANGED <<reqVars, homepage, fetched, extractCalls, classifierCalls, allLinks,
                 crawled, expTasks, uniquePosts, homepageAI, allContentHashes,
                 pagesWithIssues, batchStart, notScanVars>>

\* the tasks of a batch run while POST awaits them, and on after one of them
\* has raised: Promise.all rejects with the first rejection and POST answers
\* from its catch block while the other promises of the batch are pending
TasksRunning == pc = "batch" \/ (pc = "done" /\ response = FatalOf(SUMMARY_FAULT))

\* a variant whose duplicate check ignores the bodies registered so far
TaskFetchedUnchecked(k) ==
  /\ TasksRunning
  /\ k \in DOMAIN tasks
  /\ tasks[k] = "fetching"
  /\ \E ok \in FetchOutcomes(uniquePosts[k]) :
       IF ~ok
         THEN /\ failedFetches' = failedFetches \cup { <<"post", uniquePosts[k]>> }
              /\ tasks' = [tasks EXCEPT ![k] = "done"]
              /\ UNCHANGED <<allContentHashes, classifierCalls>>
       ELSE IF TooShort(FullContext(PageAt(uniquePosts[k])))
         THEN /\ tasks' = [tasks EXCEPT ![k] = "done"]
              /\ UNCHANGED <<allContentHashes, classifierCalls, failedFetches>>
       ELSE /\ allContentHashes' = Append(allContentHashes, PostBodyText(PageAt(uniquePosts[k])))
            /\ classifierCalls' = BagAdd(classifierCalls, uniquePosts[k])
            /\ tasks' = [tasks EXCEPT ![k] = "classifying"]
            /\ UNCHANGED failedFetches
  /\ UNCHANGED <<reqVars, homepage, pc, fetched, extractCalls, allLinks, pagesWithIssues,
                 crawled, expTasks, uniquePosts, homepageAI, batchStart, response, notScanVars>>

\* the fetch of content page uniquePosts[k] settles; the task runs to its return or
\* to its await of analyzeTextWithAI
TaskFetched(k) ==
  /\ TasksRunning
  /\ k \in DOMAIN tasks
  /\ tasks[k] = "fetching"
  /\ \E ok \in FetchOutcomes(uniquePosts[k]) :
       IF ~ok
         THEN /\ failedFetches' = failedFetches \cup { <<"post", uniquePosts[k]>> }
              /\ tasks' = [tasks EXCEPT ![k] = "done"]
              /\ UNCHANGED <<allContentHashes, pagesWithIssues, classifierCalls>>
       ELSE IF TooShort(FullContext(PageAt(uniquePosts[k])))
         THEN /\ tasks' = [tasks EXCEPT ![k] = "done"]
              /\ UNCHANGED <<allContentHashes, pagesWithIssues, classifierCalls, failedFetches>>
       ELSE IF checkForDuplicateContent(PostBodyText(PageAt(uniquePosts[k])), allContentHashes)
         THEN /\ pagesWithIssues' = Append(pagesWithIssues, DuplicateFinding(uniquePosts[k]))
              /\ tasks' = [tasks EXCEPT ![k] = "done"]
              /\ UNCHANGED <<allContentHashes, classifierCalls, failedFetches>>
       ELSE /\ allContentHashes' = Append(allContentHashes, PostBodyText(PageAt(uniquePosts[k])))
            /\ classifierCalls' = BagAdd(classifierCalls, uniquePosts[k])
            /\ tasks' = [tasks EXCEPT ![k] = "classifying"]
            /\ UNCHANGED <<pagesWithIssues, failedFetches>>
  /\ UNCHANGED <<reqVars, homepage, pc, fetched, extractCalls, allLinks,
                 crawled, expTasks, uniquePosts, homepageAI, batchStart, response, notScanVars>>

\* the classification of content page uniquePosts[k] settles; the task pushes its
\* finding, if any, and returns, or raises into the catch block of POST (a
\* rejection after the first one of its Promise.all is ignored)
TaskClassified(k) ==
  /\ TasksRunning
  /\ k \in DOMAIN tasks
  /\ tasks[k] = "classifying"
  /\ \E r \in ResponsesFor(FullContext(PageAt(uniquePosts[k])), uniquePosts[k]) :
       LET page   == PageAt(uniquePosts[k])
           ai     == WithClearViolations(
                       analyzeTextWithAI(FullContext(page), uniquePosts[k], hasKey, r),
                       PageClearViolations(page))
           issues == PageQualityIssues(page)
       IN  IF SummaryTestRaises(ai)
             THEN /\ response' = IF pc = "batch" THEN FatalOf(SUMMARY_FAULT) ELSE response
                  /\ pc' = "done"
                  /\ UNCHANGED pagesWithIssues
             ELSE /\ pagesWithIssues' =
                       IF HasIssues(ai, issues)
                         THEN Append(pagesWithIssues, CombinedResult(uniquePosts[k], ai, issues))
                         ELSE pagesWithIssues
                  /\ UNCHANGED <<pc, response>>
  /\ tasks' = [tasks EXCEPT ![k] = "done"]
  /\ UNCHANGED <<reqVars, failedFetches, homepage, fetched, extractCalls, classifierCalls,
                 allLinks, crawled, expTasks, uniquePosts, homepageAI, allContentHashes,
                 batchStart, notScanVars>>

\* a variant that runs a batch again when a fetch of it has failed
NextBatchRetry ==
  /\ pc = "batch"
  /\ \A k \in DOMAIN tasks : tasks[k] = "done"
  /\ batchStart + concurrency < Len(uniquePosts)
  /\ LET failed == { k \in BatchIndices(batchStart) : <<"post", uniquePosts[k]>> \in failedFetches }
         start  == IF failed = {} THEN batchStart + concurrency ELSE batchStart
     IN  /\ batchStart' = start
         /\ tasks' = [ k \in BatchIndices(start) |-> "fetching" ] @@ tasks
         /\ fetched' = BagAddAll(fetched, BatchUrls(start), 1)
  /\ UNCHANGED <<reqVars, failedFetches, homepage, pc, extractCalls, classifierCalls, allLinks,
                 crawled, expTasks, uniquePosts, homepageAI, allContentHashes,
                 pagesWithIssues, response, notScanVars>>

\* a variant that starts the next batch as soon as one task has settled
NextBatchEarly ==
  /\ pc = "batch"
  /\ \E k \in DOMAIN tasks : tasks[k] = "done"
  /\ \A k \in DOMAIN tasks : k <= batchStart + concurrency
  /\ batchStart + concurrency < Len(uniquePosts)
  /\ batchStart' = batchStart + concurrency
  /\ tasks' = tasks @@ [ k \in BatchIndices(batchStart + concurrency) |-> "fetching" ]
  /\ fetched' = BagAddAll(fetched, BatchUrls(batchStart + concurrency), 1)
  /\ UNCHANGED <<reqVars, failedFetches, homepage, pc, extractCalls, classifierCalls, allLinks,
                 crawled, expTasks, uniquePosts, homepageAI, allContentHashes,
                 pagesWithIssues, response, notScanVars>>

\* Promise.all of a batch resolves: the next batch starts (tasks keeps the
\* settled tasks of the batches before)
NextBatch ==
  /\ pc = "batch"
  /\ \A k \in DOMAIN tasks : tasks[k] = "done"
  /\ batchStart + concurrency < Len(uniquePosts)
  /\ batchStart' = batchStart + concurrency
  /\ tasks' = tasks @@ [ k \in BatchIndices(batchStart + concurrency) |-> "fetching" ]
  /\ fetched' = BagAddAll(fetched, BatchUrls(batchStart + concurrency), 1)
  /\ UNCHANGED <<reqVars, failedFetches, homepage, pc, extractCalls, classifierCalls, allLinks,
                 crawled, expTasks, uniquePosts, homepageAI, allContentHashes,
                 pagesWithIssues, response, notScanVars>>

\* Promise.all of the last batch resolves: the report is built and returned
Report ==
  /\ pc = "batch"
  /\ \A k \in DOMAIN tasks : tasks[k] = "done"
  /\ batchStart + concurrency >= Len(uniquePosts)
  /\ response' = ReportOf(reqUrl, HomePage, allLinks, uniquePosts, homepageAI, pagesWithIssues)
  /\ pc' = "done"
  /\ UNCHANGED <<reqVars, failedFetches, homepage, fetched, extractCalls, classifierCalls,
                 allLinks, crawled, expTasks, uniquePosts, homepageAI, allContentHashes,
                 pagesWithIssues, batchStart, tasks, notScanVars>>

(* ========================== the specifications ========================= *)
UrlNext == UrlClassify

InitUrl == UrlInit /\ DupIdle /\ ScIdle /\ ScanIdle

SpecUrl == InitUrl /\ [][UrlNext]_vars

DupNext == DupCall \/ DupFeedNext

InitDup == DupInit /\ UrlIdle /\ ScIdle /\ ScanIdle

SpecDup == InitDup /\ [][DupNext]_vars

ScNext == ScCompute \/ ScAddViolation \/ ScAddMissing \/ ScAddIssue

InitScore == ScInit /\ UrlIdle /\ DupIdle /\ ScanIdle

Next ==
  \/ Start
  \/ HomepageFetched
  \/ \E i \in 1..EXPAND_SEEDS : ExpandComplete(i)
  \/ Classify
  \/ HomepageAnalyzed
  \/ \E k \in DOMAIN tasks : TaskFetched(k)
  \/ \E k \in DOMAIN tasks : TaskClassified(k)
  \/ NextBatch
  \/ Report

Init == ScanInit /\ UrlIdle /\ DupIdle /\ ScIdle

Spec == Init /\ [][Next]_vars

\* the sites of the scans that are followed to their end
FairSites == DOMAIN Sites \ { "big", "flood" }

InitFair == Init /\ siteId \in FairSites

\* a step of the scan is pending, ENABLED <<Next>>_vars: the handler has not
\* returned, or a task that outlives its response has not settled
Running == pc # "done" \/ (TasksRunning /\ \E k \in DOMAIN tasks : tasks[k] # "done")

\* WF_vars(Next), with ENABLED <<Next>>_vars written as the state predicate
\* Running: every step of Next is the settling of a fetch or of a call of the
\* classifier, or the synchronous stretch of the handler up to its next
\* await, and each of them settles
Fairness == []<>(~Running) \/ []<><<Next>>_vars

\* the scan when every fetch and every call of the classifier settles
FairSpec == InitFair /\ [][Next]_vars /\ Fairness

\* the handler up to the seeding of the crawl set
SeedNext == Start \/ HomepageFetched

InitSeed == SeedInit /\ UrlIdle /\ DupIdle /\ ScIdle

SpecSeed == InitSeed /\ [][SeedNext]_vars

SpecScore == InitScore /\ [][ScNext]_vars

(* ============================== the claims ============================= *)
\* the expansion is over: POST is past the Promise.all of the crawl
ExpansionOver ==
  \/ pc \in {"homepageAI", "batch"}
  \/ pc = "done" /\ response.kind = "report"

\* C1: after the frontier expansion (the homepage's links and the links merged
\* from the seed pages, in any completion order) the crawl set holds at most
\* MAX_PAGES URLs.
C1_CrawlSetCapped == ExpansionOver => Len(crawled) <= MAX_PAGES

\* C2: when the homepage fetch returns the empty string the scan ends with the
\* fatal error response (status 500, error and message) and no report, and no
\* link extraction, expansion fetch, content-page fetch or classifier call is made.
C2_EmptyHomepageIsFatal ==
  homepage = ""
    => /\ pc = "done"
       /\ response.kind = "error" /\ response.status = 500
       /\ response.error = "Scan failed" /\ response.message = "Failed to fetch homepage"
       /\ extractCalls = 0
       /\ expTasks = {} /\ tasks = NoTasks
       /\ fetched = (reqUrl :> 1)
       /\ classifierCalls = NoBag

\* the fetch of the homepage of a site that can serve it has returned nothing
C2_Witness ==
  /\ homepage = "" /\ pc = "done"
  /\ reqUrl = TargetUrl /\ HasPage(reqUrl)
  /\ response.kind = "error"

\* the violations of the external classifier among a sequence of violations
\* that have a confidence under 0.8
LowConfidenceAI(violations) ==
  { i \in DOMAIN violations :
      /\ violations[i].origin = "ai"
      /\ violations[i].confidence.kind = "number"
      /\ violations[i].confidence.val < 80 }

\* C3: no violation the external classifier returned with a confidence below
\* 0.8 is among the homepage violations counted in totalViolations or in an
\* entry of pagesWithIssues, during the scan and in the report.
C3_NoLowConfidenceViolation ==
  /\ LowConfidenceAI(homepageAI.violations) = {}
  /\ \A i \in DOMAIN pagesWithIssues : LowConfidenceAI(pagesWithIssues[i].violations) = {}
  /\ response.kind = "report" =>
       \A i \in DOMAIN response.pagesWithIssues :
         LowConfidenceAI(response.pagesWithIssues[i].violations) = {}

\* a type the classifier returned next to one of confidence 0.5 is reported
\* for the homepage and for a content page
C3_Witness ==
  /\ response.kind = "report"
  /\ \E i \in DOMAIN homepageAI.violations :
       homepageAI.violations[i].origin = "ai" /\ homepageAI.violations[i].type = "Scam"
  /\ \E i \in DOMAIN response.pagesWithIssues :
       \E j \in DOMAIN response.pagesWithIssues[i].violations :
         /\ response.pagesWithIssues[i].violations[j].origin = "ai"
         /\ response.pagesWithIssues[i].violations[j].type = "Scam"

\* C6 as stated: a reachable homepage, no content page and the five required
\* pages give the score 90 and the low-content summary.
C6_LegalOnlySiteScores90 ==
  (/\ response.kind = "report"
   /\ response.postCount = 0
   /\ response.missing = <<>>)
    => response.score = 90 /\ response.summary = "low-content"

\* C6: a reachable homepage with a meta description, no quality issue and no
\* violation, no content page and the five required pages give the score 90
\* and the low-content summary.
C6_CleanLegalOnlySiteScores90 ==
  (/\ response.kind = "report"
   /\ response.postCount = 0
   /\ response.missing = <<>>
   /\ response.totalViolations = 0
   /\ response.structureIssues = <<>>
   /\ response.hasMetaTags)
    => response.score = 90 /\ response.summary = "low-content"

\* the report of such a site
C6_Witness ==
  /\ response.kind = "report"
  /\ response.postCount = 0
  /\ Len(response.found) = 5
  /\ response.totalViolations = 0
  /\ response.structureIssues = <<>>
  /\ response.hasMetaTags
  /\ response.score = 90

\* the page served for uniquePosts[k] leaves no trace in the scan: no finding, no
\* registered body, no classifier call
LeavesNoTrace(k) ==
  /\ \A i \in DOMAIN pagesWithIssues : pagesWithIssues[i].url # uniquePosts[k]
  /\ PostBodyText(PageAt(uniquePosts[k])) \notin Range(allContentHashes)
  /\ uniquePosts[k] \notin DOMAIN classifierCalls

\* C7 as stated: a content page whose body text has under 200 characters is
\* skipped entirely, whatever its title, first heading and meta description.
C7_ShortBodySkipped ==
  \A k \in DOMAIN uniquePosts :
    (HasPage(uniquePosts[k]) /\ Len(PostBodyText(PageAt(uniquePosts[k]))) < 200) => LeavesNoTrace(k)

\* C7: a content page whose assembled context (labels, title, first heading,
\* meta description and body text) has under 200 characters is skipped
\* entirely: no finding, no registered body, no classifier call.
C7_ShortContextSkipped ==
  \A k \in DOMAIN uniquePosts :
    (HasPage(uniquePosts[k]) /\ Len(FullContext(PageAt(uniquePosts[k]))) < 200) => LeavesNoTrace(k)

\* the scan of a site is over whose page of a few words was fetched and served
C7_Witness ==
  /\ response.kind = "report"
  /\ \E k \in DOMAIN uniquePosts :
       /\ HasPage(uniquePosts[k])
       /\ Len(FullContext(PageAt(uniquePosts[k]))) < 200
       /\ uniquePosts[k] \in DOMAIN fetched
       /\ Len(allContentHashes) > 0

\* C4: the score of every report is an integer between 0 and 100, however
\* negative the raw total of the subtractions is.
C4_ScoreInRange == scScore # -1 => scScore \in 0..100

\* a score was computed from a raw total far below zero
C4_Witness ==
  /\ scOp = "score"
  /\ scScore = 0
  /\ RawScore(scIn.violations, scIn.missing, scIn.issues, scIn.posts, scIn.meta, scIn.headers) < -20

\* C5: one more violation, one more missing required page or one more
\* homepage issue, all other inputs held fixed, never raises the score.
C5_ScoreMonotone == scOp \in {"violation", "missing", "issue"} => scScore <= scPrev

\* each of the three inputs was raised by one and the score fell
C5_Witness ==
  /\ scOp = "issue"
  /\ scScore = scPrev - 2
  /\ scIn.violations > 0 /\ scIn.missing > 0

\* C8 as stated: the same body fed twice, the second time with the first among
\* the prior bodies, is reported a duplicate.
C8_SameBodyTwice ==
  (dupOut \in {"true", "false"} /\ dupBody \in Range(dupPrior)) => dupOut = "true"

\* C8 amended: the same body fed twice is reported a duplicate when its
\* normalized form has more than 100 characters.
C8_SameLongBodyTwice ==
  (/\ dupOut \in {"true", "false"}
   /\ dupBody \in Range(dupPrior)
   /\ Len(Normalize(dupBody)) > DUP_MIN_LENGTH) => dupOut = "true"

\* a body with capitals and over 100 normalized characters was fed twice
C8_Witness ==
  /\ dupOut = "true"
  /\ dupBody \in Range(dupPrior)
  /\ dupBody # ToLower(dupBody)
  /\ Len(Normalize(dupBody)) > DUP_MIN_LENGTH

\* C9: every well-formed URL whose path holds a tool/download keyword is
\* classified as content, whatever its query and fragment.
C9_ToolKeywordAlwaysContent ==
  (/\ urlOut \in {"true", "false", "throw"}
   /\ IsValidUrl(ToLower(urlIn))
   /\ HasToolKeyword(Pathname(ToLower(urlIn)))) => urlOut = "true"

\* the legal-page patterns of the structural rule match the fragment-stripped URL
MatchesLegalPattern(url) == \E k \in legalLiterals : Contains(StripFragment(ToLower(url)), k)

\* the path is one segment that is a required-page name
IsRequiredPagePath(url) ==
  LET segs == Segments(Pathname(ToLower(url)))
  IN  Len(segs) = 1 /\ segs[1] \in Range(REQUIRED_PAGES)

C11_InvalidUrlRejected ==
  (pc # "start" /\ ~IsValidUrl(ToLower(reqUrl)))
    => /\ response.kind = "error" /\ response.status = 400
       /\ fetched = NoBag

\* C12: every error response of POST has a body with both an error and a
\* message field, and a status outside 200..299.
C12_UniformErrorShape ==
  response.kind = "error"
    => /\ response.fields = {"error", "message"}
       /\ response.status \notin 200..299

\* C13: a POST with action "verify-script" whose fetch returned markup issues
\* that one fetch, runs no crawl, classification or scoring step and answers
\* { found, url }.
C13_VerifyScriptOnlyFetches ==
  (reqAction = "verify-script" /\ pc = "done" /\ homepage = MARKUP)
    => /\ response.kind = "verify"
       /\ fetched = (reqUrl :> 1)
       /\ extractCalls = 0
       /\ classifierCalls = NoBag

\* C14: once the homepage is fetched, a fetch that fails changes nothing but
\* its own task: it adds no link to the crawl set, no finding, no registered
\* body and no classifier call, and it neither ends the scan nor sets the
\* response; a page whose fetch failed has no finding; and a scan that ends
\* without a report after its homepage was fetched ended on a fault of the
\* classification, never on a fetch.
C14_FailedFetchNeverAborts ==
  /\ [][failedFetches' # failedFetches
          => /\ pc' = pc /\ response' = response
             /\ crawled' = crawled
             /\ pagesWithIssues' = pagesWithIssues
             /\ allContentHashes' = allContentHashes
             /\ classifierCalls' = classifierCalls]_vars
  /\ [](\A f \in failedFetches :
          f[1] = "post" => \A i \in DOMAIN pagesWithIssues : pagesWithIssues[i].url # f[2])
  /\ []((pc = "done" /\ homepage = MARKUP /\ response.kind # "report")
          => response.kind = "error" /\ response.message = SUMMARY_FAULT)

\* a report is returned by a scan in which an expansion fetch and the fetch
\* of a content page failed
C14_Witness ==
  /\ response.kind = "report"
  /\ \E f \in failedFetches : f[1] = "expand"
  /\ \E f \in failedFetches : f[1] = "post" /\ HasPage(f[2])

\* C15: whatever the external classifier answers, the adapter's result has a
\* summary that is a string next to its two lists, and the scan of a site
\* whose homepage was fetched ends with a report.
C15_ClassifierAnswersTolerated ==
  /\ homepageAI.summaryIsString
  /\ \A i \in DOMAIN pagesWithIssues : pagesWithIssues[i].summaryIsString
  /\ (pc = "done" /\ homepage = MARKUP) => response.kind = "report"

\* the content-page tasks that have started and not settled
InFlight == { k \in DOMAIN tasks : tasks[k] \in {"fetching", "classifying"} }

\* the number of the batch of twelve that the k-th content page falls in
BatchOf(k) == (k - 1) \div 12

\* C16: at most 12 content-page tasks are in flight at any moment, and when a
\* task of a batch has started every task of the batches before it has
\* started and settled.
C16_BatchesOfTwelve ==
  /\ Cardinality(InFlight) <= 12
  /\ \A j \in DOMAIN tasks : \A k \in 1..Len(uniquePosts) :
       BatchOf(k) < BatchOf(j) => k \in DOMAIN tasks /\ tasks[k] = "done"

\* a task of the second batch is in flight
C16_Witness ==
  /\ Len(uniquePosts) > 12
  /\ \E j \in InFlight : BatchOf(j) = 1

\* C17: every URL of the crawl set, after the seeding with the homepage's links
\* and after every merge of an expanded page's links, has the host of the
\* scan target.
C17_CrawlSetSameHost ==
  \A i \in DOMAIN crawled : Hostname(crawled[i]) = Hostname(Href(reqUrl))

\* the links of a homepage that also links another host are merged with the
\* links of an expanded page
C17_Witness ==
  /\ homepage = MARKUP
  /\ \E i \in DOMAIN HomePage.hrefs :
       /\ AfterScheme(ToLower(HomePage.hrefs[i])) > 0
       /\ Hostname(Href(HomePage.hrefs[i])) # Hostname(Href(reqUrl))
  /\ Len(crawled) > Len(allLinks)

\* C18: the crawl set never holds two entries that differ only in their
\* fragment, and once the content URLs are selected every entry that carries
\* a fragment and whose fragment-stripped URL qualifies as content is among
\* them, fragment stripped.
C18_FragmentsDeduplicated ==
  /\ Cardinality({ StripFragment(crawled[i]) : i \in DOMAIN crawled }) = Len(crawled)
  /\ ExpansionOver =>
       \A i \in DOMAIN crawled :
         (UrlHash(crawled[i]) # "" /\ isLikelyPostUrl(StripFragment(crawled[i])))
           => StripFragment(crawled[i]) \in Range(uniquePosts)

\* the violations of the homepage and of the findings, as one sequence
ReportedViolations ==
  homepageAI.violations
  \o Flatten([ i \in DOMAIN pagesWithIssues |-> pagesWithIssues[i].violations ])

\* V: the reported violations that are not duplicate-content findings
NonDuplicateCount ==
  Len(SelectSeq(ReportedViolations, LAMBDA v : v.type # "DuplicateContent"))

\* D: the findings flagged purely as duplicate content
DuplicatePageCount ==
  Len(SelectSeq(pagesWithIssues,
                LAMBDA f : /\ Len(f.violations) > 0
                           /\ \A j \in DOMAIN f.violations : f.violations[j].type = "DuplicateContent"))

\* P: the penalty for a low number of content pages
VolumePenalty == IF Len(uniquePosts) < 20 THEN 10 ELSE IF Len(uniquePosts) < 40 THEN 5 ELSE 0

\* clamp(0, 100, x)
Clamped(x) == IF x < 0 THEN 0 ELSE IF x > 100 THEN 100 ELSE x

\* C19 as stated: the score is clamp(0, 100, 100 - 5V - D - 5M - 2H - P) and no
\* other deduction is applied.
C19_ScoreFormula ==
  response.kind = "report"
    => response.score = Clamped(100 - 5 * NonDuplicateCount - DuplicatePageCount
                                - 5 * Len(response.missing)
                                - 2 * Len(response.structureIssues)
                                - VolumePenalty)

\* C19: the score is clamp(0, 100, 100 - 5T - 5M - 2H - P - 3A - 3B), where T
\* counts every reported violation of the homepage and the content pages, a
\* duplicate-content finding included, A is 1 when the homepage has no meta
\* description and B is 1 when it lacks a proper heading hierarchy.
C19_ScoreFormulaOfCode ==
  response.kind = "report"
    => response.score = Clamped(100 - 5 * Len(ReportedViolations)
                                - 5 * Len(response.missing)
                                - 2 * Len(response.structureIssues)
                                - VolumePenalty
                                - (IF response.hasMetaTags THEN 0 ELSE 3)
                                - (IF HasProperHeadings(HomePage.h1Count, HomePage.h2Count,
                                                        HomePage.h3Count) THEN 0 ELSE 3))

\* the report of a site without meta description that has a page flagged as
\* duplicate and a violation of the classifier, scored above the floor
C19_Witness ==
  /\ response.kind = "report"
  /\ DuplicatePageCount > 0
  /\ NonDuplicateCount > 0
  /\ ~response.hasMetaTags
  /\ response.score > 0

\* the suggestions of the homepage and of the findings in the order of the
\* findings, then the reminder of the missing required pages and the reminder
\* of the homepage's quality issues, each when there is one
SuggestionsInOrder ==
  homepageAI.suggestions
  \o Flatten([ i \in DOMAIN response.pagesWithIssues |-> response.pagesWithIssues[i].suggestions ])
  \o (IF response.missing # <<>>
        THEN << "Add missing pages: " \o Join(response.missing, ", ") >> ELSE <<>>)
  \o (IF response.structureIssues # <<>>
        THEN << "Fix homepage structure: " \o Join(response.structureIssues, ", ") >> ELSE <<>>)

\* the first n entries of xs, all of them when there are fewer
Prefix(xs, n) == [ i \in 1..(IF Len(xs) < n THEN Len(xs) ELSE n) |-> xs[i] ]

\* C20 as stated: the suggestion list of the report is that concatenation,
\* in order and without deduplication, cut to its first 20 entries.
C20_SuggestionsCutAt20 ==
  response.kind = "report" => response.aiSuggestions = Prefix(SuggestionsInOrder, 20)

\* C20: the suggestion list of the report is that concatenation, in order and
\* without deduplication, cut to its first 15 entries.
C20_SuggestionsCutAt15 ==
  response.kind = "report" => response.aiSuggestions = Prefix(SuggestionsInOrder, 15)

\* a report whose concatenation holds more than 15 entries, one of them twice
C20_Witness ==
  /\ response.kind = "report"
  /\ Len(SuggestionsInOrder) > 15
  /\ Len(response.aiSuggestions) = 15
  /\ Cardinality(Range(response.aiSuggestions)) < 15

\* C21: once the crawl set holds the page cap, no URL is added to it: the
\* links of every expansion fetch that completes afterwards are dropped.
C21_NothingAddedAfterCap ==
  [][Len(crawled) >= MAX_PAGES => crawled' = crawled]_vars

\* C22 as stated: the crawl set is seeded with at most the first 100 homepage
\* links plus the homepage URL, so it has at most 101 entries and contains the
\* homepage URL, and at most the first 20 seeds are fetched.
C22_SeedCappedWithHomepage ==
  pc = "expanding" =>
    /\ Len(crawled) <= 101
    /\ { reqUrl, Href(reqUrl) } \cap Range(crawled) # {}
    /\ expTasks \subseteq 1..20

\* C22 as the code has it: the crawl set is seeded with every link of the
\* homepage and nothing else, and an expansion fetch is issued for the first
\* 20 of them at most, and for none when the seed is over the page cap.
C22_SeedIsEveryHomepageLink ==
  pc = "expanding" =>
    LET hrefs == AllSites[siteId].web[reqUrl].hrefs
        n     == Len(hrefs)
    IN  /\ crawled = [ i \in 1..n |-> TargetUrl \o hrefs[i] ]
        /\ { reqUrl, Href(reqUrl) } \cap Range(crawled) = {}
        /\ expTasks = (IF n > 500 THEN {} ELSE IF n < 20 THEN 1..n ELSE 1..20)
        /\ DOMAIN fetched = { reqUrl } \cup { crawled[i] : i \in expTasks }
        /\ \A u \in DOMAIN fetched : fetched[u] = 1

C22_Witness ==
  /\ pc = "expanding"
  /\ Len(crawled) > 20
  /\ Len(crawled) <= 101
  /\ expTasks = 1..20

\* C23: every violation of a report, of the homepage or of an entry of
\* pagesWithIssues, has a numeric confidence between 0 and 1, whatever
\* confidence values the classifier returned.
C23_ConfidenceInUnitInterval ==
  response.kind = "report" =>
    /\ \A j \in DOMAIN homepageAI.violations :
         /\ homepageAI.violations[j].confidence.kind = "number"
         /\ homepageAI.violations[j].confidence.val \in 0..100
    /\ \A i \in DOMAIN response.pagesWithIssues :
         \A j \in DOMAIN response.pagesWithIssues[i].violations :
           /\ response.pagesWithIssues[i].violations[j].confidence.kind = "number"
           /\ response.pagesWithIssues[i].violations[j].confidence.val \in 0..100

\* C24: every entry of pagesWithIssues has a violation, a suggestion
\* or a quality issue, whatever summary the classifier returned.
C24_EveryFindingHasAnIssue ==
  \A i \in DOMAIN pagesWithIssues :
    \/ Len(pagesWithIssues[i].violations) > 0
    \/ Len(pagesWithIssues[i].suggestions) > 0
    \/ Len(pagesWithIssues[i].qualityIssues) > 0

\* the number of positions, among the first n, at which a and b hold the same
\* character
EqualPositions(a, b, n) ==
  Cardinality({ i \in 1..n : SubSeq(a, i, i) = SubSeq(b, i, i) })

ShorterLength(a, b) == IF Len(a) < Len(b) THEN Len(a) ELSE Len(b)

\* the positions 0, stride, 2*stride, ... below n, counted from 1
SampledPositions(n) ==
  LET stride == IF n \div 100 < 1 THEN 1 ELSE n \div 100
  IN  { i \in 1..n : (i - 1) % stride = 0 }

\* C25 as stated: the detector answers true iff for some prior body both
\* normalized strings have at least 100 characters and more than 85 percent
\* of the positions sampled at stride max(1, floor(minLength/100)) of the
\* shorter one hold equal characters.
C25_SampledAbove85 ==
  dupOut \in {"true", "false"} =>
    ((dupOut = "true") <=>
       \E k \in DOMAIN dupPrior :
         LET a == Normalize(dupBody)
             b == Normalize(dupPrior[k])
             n == ShorterLength(a, b)
             sampled == SampledPositions(n)
         IN  /\ n >= 100
             /\ 100 * Cardinality({ i \in sampled : SubSeq(a, i, i) = SubSeq(b, i, i) })
                  > 85 * Cardinality(sampled))

\* C25 as the code has it: the detector answers true iff for some prior body
\* the shorter normalized string has more than 100 characters and more than
\* 80 percent of all its positions hold equal characters.
C25_EveryPositionAbove80 ==
  dupOut \in {"true", "false"} =>
    ((dupOut = "true") <=>
       \E k \in DOMAIN dupPrior :
         LET a == Normalize(dupBody)
             b == Normalize(dupPrior[k])
             n == ShorterLength(a, b)
         IN  n > 100 /\ 100 * EqualPositions(a, b, n) > 80 * n)

\* a body that agrees with a prior body in 81 of 101 positions was reported a
\* duplicate
C25_Witness ==
  /\ dupOut = "true"
  /\ Len(dupPrior) = 1
  /\ ShorterLength(Normalize(dupBody), Normalize(dupPrior[1])) = 101
  /\ EqualPositions(Normalize(dupBody), Normalize(dupPrior[1]), 101) = 81

\* C26: for a string that is not a parseable absolute URL the classifier
\* returns false and does not raise.
C26_MalformedUrlIsRejected ==
  (urlOut \in {"true", "false", "throw"} /\ urlIn \in MalformedUrls) => urlOut = "false"

\* the task of content page u has got its markup: its fetch has settled and
\* did not fail
FetchedOk(u) ==
  \E k \in DOMAIN tasks :
    /\ uniquePosts[k] = u
    /\ tasks[k] # "fetching"
    /\ <<"post", u>> \notin failedFetches

\* the entries of pagesWithIssues that flag u as duplicate content
FlaggedDuplicate(u) ==
  { i \in DOMAIN pagesWithIssues :
      /\ pagesWithIssues[i].url = u
      /\ \E j \in DOMAIN pagesWithIssues[i].violations :
           pagesWithIssues[i].violations[j].type = "DuplicateContent" }

C30_AllTasksSettledAtResponse ==
  /\ [](response.kind # "none" => InFlight = {})
  /\ [][response.kind # "none" => pagesWithIssues' = pagesWithIssues]_vars

\* C29: whenever a required page is missing, the suggestion list of the
\* report holds the reminder that names the missing pages, however many
\* suggestions the homepage and the content pages produced.
C29_MissingPagesReminderReported ==
  (response.kind = "report" /\ Len(response.missing) > 0) =>
    \E i \in DOMAIN response.aiSuggestions :
      response.aiSuggestions[i] = "Add missing pages: " \o Join(response.missing, ", ")

\* how often u was fetched as a content page: its fetches without the fetch
\* of the homepage and without the expansion fetch of a seed
ContentFetches(u) ==
  fetched[u]
  - (IF u = reqUrl THEN 1 ELSE 0)
  - (IF Len(allLinks) <= 500 /\ \E i \in DOMAIN allLinks : i <= 20 /\ allLinks[i] = u
       THEN 1 ELSE 0)

\* C28: when every fetch and every classifier call settles, every scan
\* eventually returns a response, a report or an error, and never a second
\* one, and eventually nothing of it is pending; the batches advance through the content pages without running one
\* again; no URL is fetched more than once as a content page, also after its
\* fetch failed.
C28_ScanReturnsOnce ==
  /\ <>(response.kind \in {"report", "error"})
  /\ <>[](~Running)
  /\ [][response.kind # "none" => response' = response]_vars
  /\ [][batchStart' # batchStart
          => batchStart' = batchStart + 12 /\ batchStart' < Len(uniquePosts)]_vars
  /\ [](\A u \in DOMAIN fetched : ContentFetches(u) <= 1)

\* a report is returned after two batches in which fetches failed; one of
\* the content pages had been fetched as an expansion seed before
C28_Witness ==
  /\ response.kind = "report"
  /\ batchStart > 0
  /\ \E k \in DOMAIN uniquePosts : <<"post", uniquePosts[k]>> \in failedFetches
  /\ \A k \in DOMAIN uniquePosts : ContentFetches(uniquePosts[k]) = 1
  /\ \E k \in DOMAIN uniquePosts : fetched[uniquePosts[k]] = 2
====
